---- MODULE Spec2Model ----
(***************************************************************************)
(* github-follower-analyzer: the two command-line entry points             *)
(*   main.py         compare_github_relationships  (followers / following) *)
(*   repozitories.py find_users_with_low_repos     (detail enrichment)     *)
(* One run of one entry point.  The GitHub API is the environment: every   *)
(* response is chosen by \E from the response sets below.                  *)
(***************************************************************************)
EXTENDS Integers, Sequences, FiniteSets, TLC

\* ------------------------------------------------------------------ bounds
\* Most accounts one list endpoint serves over all the pages of one fetch.
MaxUsers == 3
\* Where a server is not held to MaxUsers: the page indexes from PageCap on are
\* kept as PageCap.
PageCap == 3

\* ------------------------------------------------------- program constants
\* per_page = 100
per_page == 100
\* time.sleep(0.5), in tenths of a second
SleepTenths == 5
\* the limit of "if public_repos <= 2"
RepoLimit == 2

\* ---------------------------------------------------------------- inputs
Logins == {"Alice", "alice", "bob", "carol"}

\* JSON bodies of a list page: lists of {"login": ...} objects.
PageBodies ==
  { <<>>, <<"Alice">>, <<"alice">>, <<"bob">>, <<"bob", "carol">> }

\* The pages served to repozitories.py, whose list keeps the logins as sent.
RepoPageBodies ==
  { <<>>, <<"Alice">>, <<"bob">>, <<"bob", "carol">> }

\* The 'link' response header: absent, or present with a set of rel values.
LinkHeaders ==
  { [present |-> FALSE, rels |-> {}],
    [present |-> TRUE,  rels |-> {"prev"}],
    [present |-> TRUE,  rels |-> {"next"}] }

NoLink == [present |-> FALSE, rels |-> {}]

\* What requests.get can produce for a list request: a response with a status,
\* a body and headers, or a transport exception.  202 stands for the statuses
\* that are neither 200 nor 4xx/5xx.
ErrorStatuses == {401, 403, 500}
BodyStatuses == {200, 202}

Responses(bodies) ==
  { [kind |-> "http", status |-> s, body |-> b, link |-> l] :
        s \in BodyStatuses, b \in bodies, l \in LinkHeaders }
  \cup { [kind |-> "http", status |-> s, body |-> <<>>, link |-> NoLink] :
        s \in ErrorStatuses }
  \cup { [kind |-> "exc", status |-> 0, body |-> <<>>, link |-> NoLink] }

\* What requests.get can produce for GET /users/<login>.
RepoCounts == {1, 2, 3, 5}

DetailResponses ==
  { [kind |-> "http", status |-> 200, has_repos |-> TRUE, public_repos |-> n] :
        n \in RepoCounts }
  \cup { [kind |-> "http", status |-> 200, has_repos |-> FALSE, public_repos |-> 0],
         [kind |-> "http", status |-> 500, has_repos |-> FALSE, public_repos |-> 0],
         [kind |-> "exc",  status |-> 0,   has_repos |-> FALSE, public_repos |-> 0] }

Tokens == {"", "fake-token"}
\* (output_file, output_format) of a call; "" is output_file=None.
OutputArgs == { <<"", "txt">>, <<"out", "txt">>, <<"out", "csv">> }
\* The threshold the operator wants configured (the variants use 1 and 2).
Thresholds == {1, 2}

\* ---------------------------------------------------------- pure helpers
\* Bug: the login enters the set as sent.
lowerMissing(l) == l

\* str.lower() on the logins of the model.
lower(l) == IF l = "Alice" THEN "alice" ELSE l

\* Order of the logins under Python's string comparison (code points).
Rank(l) == CASE l = "Alice" -> 1 [] l = "alice" -> 2 [] l = "bob" -> 3
             [] l = "carol" -> 4 [] OTHER -> 5

Range(s) == { s[k] : k \in 1..Len(s) }

\* for user_data in page_users: users.add(user_data['login'].lower())
AddPageSet(acc, body) == acc \cup { lower(body[k]) : k \in 1..Len(body) }

\* Bug: the page replaces the accumulated list instead of extending it.
AddPageListReplace(acc, body) == body

\* for user_data in page_users: users.append(user_data['login'])
AddPageList(acc, body) == acc \o body

\* Bug: the loop never takes a page for the last one.
HasNextAlways(resp) == TRUE

\* Bug: any link header counts as a next link.
HasAnyLink(resp) == resp.link.present

\* 'link' in response.headers and 'rel="next"' in response.headers['link']
HasNext(resp) == resp.link.present /\ "next" \in resp.link.rels

\* Bug: every status but 200 raises.
RaisesForNon200(status) == status # 200

\* response.raise_for_status(): raises for 4xx and 5xx.
RaisesForStatus(status) == status >= 400 /\ status < 600

\* Optional values: None, or a value.
None == [st |-> "none", v |-> {}]
NoneList == [st |-> "none", v |-> <<>>]
Unset == [st |-> "unset", v |-> {}]
UnsetList == [st |-> "unset", v |-> <<>>]
Some(x) == [st |-> "value", v |-> x]

\* Events of the run, in order: HTTP GETs and sleeps.
Get(endpoint, login, p, pp) ==
  [kind |-> "get", endpoint |-> endpoint, login |-> login, page |-> p, per_page |-> pp,
   tenths |-> 0]
Sleep(t) ==
  [kind |-> "sleep", endpoint |-> "", login |-> "", page |-> 0, per_page |-> 0,
   tenths |-> t]

NoFile == [written |-> FALSE, format |-> "", rows |-> <<>>]

VARIABLES
  pc,              \* position of the run
  entry,           \* the entry point that was called: "main", "repo" or "none"
  token,           \* repozitories.py: the token argument
  output_file,     \* the output_file argument of the call ("" is None)
  output_format,   \* the output_format argument of the call
  threshold,       \* the threshold the operator wants; no code reads it
  users,           \* main.py get_github_users: users (a set)
  users_list,      \* repozitories.py get_following_users: users (a list)
  page,            \* page of the running list fetch
  respLog,         \* responses received by the running (or last) list fetch
  followers,       \* main.py compare_github_relationships: followers
  followers_raw,   \* the logins the followers endpoint sent, as sent
  following,       \* main.py compare_github_relationships: following
  non_followers,   \* main.py: non_followers (Unset until computed)
  fans,            \* main.py: fans (Unset until computed)
  following_users, \* repozitories.py find_users_with_low_repos: following_users
  i,               \* repozitories.py: logins of following_users already handled
  detailLog,       \* responses received by the detail lookups, in order
  low_repo_users,  \* repozitories.py: low_repo_users
  trace,           \* every GET and sleep of the run, in order
  printed,         \* diagnostics printed, in order
  file             \* the output file

vars == << pc, entry, followers_raw, token, output_file, output_format, threshold, users, users_list, page,
           respLog, followers, following, non_followers, fans, following_users, i,
           detailLog, low_repo_users, trace, printed, file >>

mainVars == << users, page, respLog, followers, followers_raw, following,
              non_followers, fans >>
repoVars == << token, users_list, following_users, i, detailLog, low_repo_users >>
callVars == << output_file, output_format, threshold >>

Init ==
  /\ pc = "idle"
  /\ entry = "none"
  /\ followers_raw = {}
  /\ token = ""
  /\ output_file = ""
  /\ output_format = "txt"
  /\ threshold = 0
  /\ users = {}
  /\ users_list = <<>>
  /\ page = 1
  /\ respLog = <<>>
  /\ followers = Unset
  /\ following = Unset
  /\ non_followers = Unset
  /\ fans = Unset
  /\ following_users = UnsetList
  /\ i = 0
  /\ detailLog = <<>>
  /\ low_repo_users = <<>>
  /\ trace = <<>>
  /\ printed = <<>>
  /\ file = NoFile

\* =================================================================== main.py

\* Accounts served so far by the pages of the running fetch.
RECURSIVE Served(_)
Served(log) ==
  IF log = <<>> THEN 0 ELSE Len(Head(log).body) + Served(Tail(log))

\* The endpoint has at most MaxUsers accounts to serve.
WithinUsers(resp) == Served(respLog) + Len(resp.body) <= MaxUsers

\* "if not page_users" of get_github_users
IsEmptyPage(page_users) == page_users = <<>>

\* Bug: the page index is not advanced.
NextPageSame(p) == p

\* page += 1
NextPage(p) == p + 1

\* The diagnostic get_github_users prints for a non-200 status.
StatusDiagnostic(status) ==
  IF status = 401 THEN "auth_error_401"
  ELSE IF status = 403 THEN "forbidden_403"
  ELSE "error_status"

\* Bug: the users gathered so far are returned after a failure.
FailureResultPartial(acc) == Some(acc)

\* What get_github_users returns after a non-200 status.
FailureResult(acc) == None

\* compare_github_relationships() : the call main.py's signature allows.
\* Runs up to the first request of the followers fetch.
compare_github_relationships ==
  /\ pc = "idle"
  /\ pc' = "fetch_followers"
  /\ entry' = "main"
  /\ users' = {}
  /\ page' = 1
  /\ respLog' = <<>>
  /\ printed' = Append(printed, "fetching_followers")
  /\ UNCHANGED << followers, followers_raw, following, non_followers, fans, trace, file >>
  /\ UNCHANGED repoVars
  /\ UNCHANGED callVars

\* compare_github_relationships(output_file=..., output_format=...) as the tests
\* call it: the function takes no parameters, the call raises TypeError.
compare_github_relationships_output(f, fmt) ==
  /\ pc = "idle"
  /\ pc' = "crashed"
  /\ entry' = "main"
  /\ output_file' = f
  /\ output_format' = fmt
  /\ printed' = Append(printed, "traceback")
  /\ UNCHANGED << threshold, trace, file >>
  /\ UNCHANGED mainVars
  /\ UNCHANGED repoVars

\* The value get_github_users hands to its caller.
ReturnMain(val) ==
  IF pc = "fetch_followers"
  THEN /\ followers' = val
       /\ pc' = "got_followers"
       /\ UNCHANGED following
  ELSE /\ following' = val
       /\ pc' = "got_following"
       /\ UNCHANGED followers

\* The GET of one iteration of get_github_users.
MainRequest ==
  Get(IF pc = "fetch_followers" THEN "followers" ELSE "following", "", page, per_page)

\* One iteration of "while True" in get_github_users, with what the model
\* keeps of the requests, of the responses and of the page index.
GetGithubUsersStep(resp, tr, log, pg) ==
  /\ pc \in {"fetch_followers", "fetch_following"}
  /\ trace' = tr
  /\ respLog' = log
  /\ followers_raw' =
       IF pc = "fetch_followers" /\ resp.kind = "http" /\ resp.status = 200
       THEN followers_raw \cup Range(resp.body)
       ELSE followers_raw
  /\ IF resp.kind = "exc"
     THEN \* requests.get raises: nothing catches it, the script dies
          /\ pc' = "crashed"
          /\ printed' = Append(printed, "traceback")
          /\ UNCHANGED << users, page, followers, following >>
     ELSE IF resp.status = 200
     THEN IF IsEmptyPage(resp.body)
          THEN /\ ReturnMain(Some(users))
               /\ UNCHANGED << users, page, printed >>
          ELSE /\ users' = AddPageSet(users, resp.body)
               /\ IF HasNext(resp)
                  THEN /\ page' = pg
                       /\ UNCHANGED << pc, followers, following, printed >>
                  ELSE /\ ReturnMain(Some(users'))
                       /\ UNCHANGED << page, printed >>
     ELSE /\ printed' = Append(printed, StatusDiagnostic(resp.status))
          /\ ReturnMain(FailureResult(users))
          /\ UNCHANGED << users, page >>
  /\ UNCHANGED << entry, non_followers, fans, file >>
  /\ UNCHANGED repoVars
  /\ UNCHANGED callVars

\* get_github_users against an endpoint that serves at most MaxUsers accounts;
\* every request and every response of the fetch is kept.
get_github_users(resp) ==
  /\ WithinUsers(resp)
  /\ GetGithubUsersStep(resp, Append(trace, MainRequest), Append(respLog, resp),
                        NextPage(page))

\* p, with the indexes from PageCap on kept as PageCap.
Capped(p) == IF p < PageCap THEN p ELSE PageCap

\* get_github_users against an endpoint that may serve pages without end; only
\* the last request and the last response are kept.
get_github_users_paging(resp) ==
  GetGithubUsersStep(resp, << MainRequest >>, << resp >>, Capped(NextPage(page)))

\* Bug: the caller does not look at the failure signal.
IsNoneIgnored(val) == FALSE

\* "if followers is None", "if following is None", "if following_users is None"
IsNone(val) == val.st = "none"

\* Bug: the operands of the difference are swapped.
NonFollowersSwapped(fers, fing) == fers \ fing

\* non_followers = following - followers
NonFollowers(fers, fing) == fing \ fers

\* fans = followers - following
Fans(fers, fing) == fers \ fing

\* compare_github_relationships after the followers fetch returned.
compare_after_followers ==
  /\ pc = "got_followers"
  /\ IF IsNone(followers)
     THEN /\ printed' = Append(printed, "followers_failed")
          /\ pc' = "done"
          /\ UNCHANGED << users, page, respLog >>
     ELSE /\ pc' = "fetch_following"
          /\ users' = {}
          /\ page' = 1
          /\ respLog' = <<>>
          /\ printed' = Append(printed, "fetching_following")
  /\ UNCHANGED << entry, followers, followers_raw, following, non_followers, fans,
                  trace, file >>
  /\ UNCHANGED repoVars
  /\ UNCHANGED callVars

\* compare_github_relationships after the following fetch returned: the
\* comparison and the printed report.
compare_after_following ==
  /\ pc = "got_following"
  /\ IF IsNone(following)
     THEN /\ printed' = Append(printed, "following_failed")
          /\ UNCHANGED << non_followers, fans >>
     ELSE /\ non_followers' = Some(NonFollowers(followers.v, following.v))
          /\ fans' = Some(Fans(followers.v, following.v))
          /\ printed' = Append(printed, "comparison_results")
  /\ pc' = "done"
  /\ UNCHANGED << entry, users, page, respLog, followers, followers_raw, following,
                  trace, file >>
  /\ UNCHANGED repoVars
  /\ UNCHANGED callVars

MainNext ==
  \/ compare_github_relationships
  \/ \E o \in OutputArgs :
        o[1] # "" /\ compare_github_relationships_output(o[1], o[2])
  \/ \E resp \in Responses(PageBodies) : get_github_users(resp)
  \/ compare_after_followers
  \/ compare_after_following

\* ============================================================ repozitories.py

\* find_users_with_low_repos(username, token, output_file, output_format), up
\* to the first request of get_following_users (or its return on an empty
\* token).  th is the threshold the operator wants; the signature has no
\* parameter that could carry it.
find_users_with_low_repos(tok, f, fmt, th) ==
  /\ pc = "idle"
  /\ entry' = "repo"
  /\ token' = tok
  /\ output_file' = f
  /\ output_format' = fmt
  /\ threshold' = th
  /\ users_list' = <<>>
  /\ IF tok = ""
     THEN /\ printed' = Append(printed, "no_token")
          /\ following_users' = NoneList
          /\ pc' = "got_following_users"
     ELSE /\ printed' = Append(printed, "fetching_following")
          /\ UNCHANGED following_users
          /\ pc' = "fetch_following_users"
  /\ page' = 1
  /\ respLog' = <<>>
  /\ UNCHANGED << i, detailLog, low_repo_users, trace, file >>
  /\ UNCHANGED << users, followers, followers_raw, following, non_followers, fans >>

\* One iteration of "while True" in get_following_users.
get_following_users(resp) ==
  /\ pc = "fetch_following_users"
  /\ WithinUsers(resp)
  /\ trace' = Append(trace, Get("following", "", page, per_page))
  /\ respLog' = Append(respLog, resp)
  /\ IF resp.kind = "exc" \/ RaisesForStatus(resp.status)
     THEN /\ printed' = Append(printed, "api_error")
          /\ following_users' = NoneList
          /\ pc' = "got_following_users"
          /\ UNCHANGED << users_list, page >>
     ELSE IF resp.body = <<>>
     THEN /\ following_users' = Some(users_list)
          /\ pc' = "got_following_users"
          /\ UNCHANGED << users_list, page, printed >>
     ELSE /\ users_list' = AddPageList(users_list, resp.body)
          /\ IF HasNext(resp)
             THEN /\ page' = NextPage(page)
                  /\ UNCHANGED << pc, following_users >>
             ELSE /\ following_users' = Some(users_list')
                  /\ pc' = "got_following_users"
                  /\ UNCHANGED page
          /\ UNCHANGED printed
  /\ UNCHANGED << entry, users, followers, followers_raw, following, non_followers,
                  fans >>
  /\ UNCHANGED << token, i, detailLog, low_repo_users, file >>
  /\ UNCHANGED callVars

\* find_users_with_low_repos after get_following_users returned.
find_after_fetch ==
  /\ pc = "got_following_users"
  /\ IF IsNone(following_users)
     THEN /\ pc' = "done"
          /\ UNCHANGED << printed, respLog, users_list >>
     ELSE /\ pc' = "enrich"
          /\ printed' = Append(printed, "starting_check")
          /\ respLog' = <<>>        \* the fetch is over: its locals are gone
          /\ users_list' = <<>>
  /\ low_repo_users' = <<>>
  /\ i' = 0
  /\ UNCHANGED << entry, token, following_users, detailLog, trace, file >>
  /\ UNCHANGED << users, page, followers, followers_raw, following, non_followers,
                  fans >>
  /\ UNCHANGED callVars

\* get_user_details: the parsed JSON, or None when the GET or raise_for_status
\* raises.
DetailFailed(d) == d.kind = "exc" \/ RaisesForStatus(d.status)

\* user_details and 'public_repos' in user_details
HasRepoCount(d) == ~DetailFailed(d) /\ d.has_repos

\* Bug: a strict comparison.
IsLowRepoStrict(public_repos) == public_repos < RepoLimit

\* if public_repos <= 2
IsLowRepo(public_repos) == public_repos <= RepoLimit

\* Bug: a failed lookup ends the loop.
AfterLookupBreak(idx, d) ==
  IF d.kind = "exc" \/ d.status >= 400 THEN Len(following_users.v) ELSE idx + 1

\* "for ... in enumerate(following_users, 1)": the loop goes on to the next
\* login whatever the lookup of this one gave.
AfterLookup(idx, d) == idx + 1

\* Bug: the lookup is sent without the delay before it.
LookupEventsNoSleep(user) == << Get("user", user, 0, 0) >>

\* time.sleep(0.5), then get_user_details(user, token): its one GET.
LookupEvents(user) == << Sleep(SleepTenths), Get("user", user, 0, 0) >>

\* One iteration of "for i, user in enumerate(following_users, 1)".
enrich_user(d) ==
  /\ pc = "enrich"
  /\ i < Len(following_users.v)
  /\ LET user == following_users.v[i + 1] IN
       /\ trace' = trace \o LookupEvents(user)
       /\ detailLog' = Append(detailLog, d)
       /\ IF HasRepoCount(d)
          THEN /\ printed' = Append(printed, "checking")
               /\ low_repo_users' =
                    IF IsLowRepo(d.public_repos)
                    THEN Append(low_repo_users,
                                [username |-> user, repos |-> d.public_repos])
                    ELSE low_repo_users
          ELSE /\ printed' =
                    IF DetailFailed(d)
                    THEN printed \o << "detail_error", "skipping" >>
                    ELSE Append(printed, "skipping")
               /\ UNCHANGED low_repo_users
  /\ i' = AfterLookup(i, d)
  /\ UNCHANGED << pc, entry, token, users_list, following_users, file >>
  /\ UNCHANGED mainVars
  /\ UNCHANGED callVars

\* sorted(users, key=lambda x: x['username']): a stable sort by username.
RECURSIVE InsertSorted(_, _)
InsertSorted(rec, s) ==
  IF s = <<>> THEN << rec >>
  ELSE IF Rank(rec.username) < Rank(Head(s).username)
       THEN << rec >> \o s
       ELSE << Head(s) >> \o InsertSorted(rec, Tail(s))

RECURSIVE SortedByUsername(_)
SortedByUsername(s) ==
  IF s = <<>> THEN <<>>
  ELSE InsertSorted(s[Len(s)], SortedByUsername(SubSeq(s, 1, Len(s) - 1)))

\* write_low_repo_users_txt / write_low_repo_users_csv: one row per record.
WrittenFile(fmt, recs) ==
  [written |-> TRUE, format |-> IF fmt = "csv" THEN "csv" ELSE "txt",
   rows |-> SortedByUsername(recs)]

\* find_users_with_low_repos after the loop: the printed results and the export.
report_and_export ==
  /\ pc = "enrich"
  /\ i = Len(following_users.v)
  /\ pc' = "done"
  /\ IF output_file # ""
     THEN /\ file' = WrittenFile(output_format, low_repo_users)
          /\ printed' = printed \o << "results", "exported" >>
     ELSE /\ printed' = Append(printed, "results")
          /\ UNCHANGED file
  /\ UNCHANGED << entry, trace >>
  /\ UNCHANGED repoVars
  /\ UNCHANGED mainVars
  /\ UNCHANGED callVars

\* The steps of a repozitories.py run after its call.
RepoRun ==
  \/ \E resp \in Responses(RepoPageBodies) : get_following_users(resp)
  \/ find_after_fetch
  \/ \E d \in DetailResponses : enrich_user(d)
  \/ report_and_export

RepoNext ==
  \/ \E tok \in Tokens, o \in OutputArgs, th \in Thresholds :
        find_users_with_low_repos(tok, o[1], o[2], th)
  \/ RepoRun

Next == MainNext \/ RepoNext

Spec == Init /\ [][Next]_vars

\* main.py against an endpoint that may serve pages without end.
MainPagingNext ==
  \/ compare_github_relationships
  \/ \E resp \in Responses(PageBodies) : get_github_users_paging(resp)
  \/ compare_after_followers
  \/ compare_after_following

\* repozitories.py where the threshold wanted is the one the code applies.
RepoPagingNext ==
  \/ \E tok \in Tokens, o \in OutputArgs :
        find_users_with_low_repos(tok, o[1], o[2], RepoLimit)
  \/ RepoRun

PagingNext == MainPagingNext \/ RepoPagingNext

\* The script runs on until it returns or dies, and every request is answered
\* or raises.
SpecPaging == Init /\ [][PagingNext]_vars /\ WF_vars(PagingNext)

\* ==================================================================== claims

Last(s) == s[Len(s)]

Fetching == pc \in {"fetch_followers", "fetch_following", "fetch_following_users"}
Returned == pc \in {"got_followers", "got_following", "got_following_users"}

\* The value the list fetch that just returned handed to its caller.
FetchResult ==
  IF pc = "got_followers" THEN followers
  ELSE IF pc = "got_following" THEN following
  ELSE following_users

\* GETs of the run sent to an endpoint.
RequestsTo(e) ==
  Cardinality({ k \in 1..Len(trace) : trace[k].kind = "get" /\ trace[k].endpoint = e })

\* GETs issued by the list fetch that is running or has just returned.
FetchRequests ==
  RequestsTo(IF pc \in {"fetch_followers", "got_followers"} THEN "followers"
             ELSE "following")

\* The logins of all pages of a log, in order.
RECURSIVE Records(_)
Records(log) == IF log = <<>> THEN <<>> ELSE Head(log).body \o Records(Tail(log))

\* The lower-case form of a login, written out.
Folded(l) == CASE l = "Alice" -> "alice" [] OTHER -> l

HasNextRel(r) == r.link.present /\ "next" \in r.link.rels
IsNextPage(r) == r.kind = "http" /\ r.status = 200 /\ r.body # <<>> /\ HasNextRel(r)
IsEndPage(r) == r.kind = "http" /\ r.status = 200 /\ r.body = <<>> /\ ~HasNextRel(r)
IsLastFullPage(r) == r.kind = "http" /\ r.status = 200 /\ r.body # <<>> /\ ~HasNextRel(r)

\* Pages 1..k are non-empty 200 pages with a next link, page k+1 is an empty
\* 200 page without one (k >= 1).
Paginated(log) ==
  /\ Len(log) >= 2
  /\ \A k \in 1..(Len(log) - 1) : IsNextPage(log[k])
  /\ IsEndPage(log[Len(log)])

\* C1: when pages 1..k are non-empty 200 pages with a next link and page k+1
\* is an empty 200 page without one, the list fetch issues exactly k+1
\* requests (page k+1 is requested, nothing after it) and returns the records
\* of pages 1..k: as a set of lower-cased logins in get_github_users, as the
\* list of logins in page order in get_following_users.
C1_PaginationTermination ==
  /\ (Returned /\ Paginated(respLog)) =>
        /\ FetchResult.st = "value"
        /\ FetchRequests = Len(respLog)
        /\ IF entry = "main"
           THEN FetchResult.v = { Folded(l) : l \in Range(Records(respLog)) }
           ELSE FetchResult.v = Records(respLog)
  /\ (Returned /\ respLog # <<>>) => ~IsNextPage(Last(respLog))
  /\ (Fetching /\ respLog # <<>>) => ~IsEndPage(Last(respLog))

C1_Witness ==
  /\ pc = "got_following_users"
  /\ Paginated(respLog)
  /\ Len(respLog) = 3
  /\ Len(following_users.v) = 2

IsNon200(r) == r.kind = "http" /\ r.status # 200

\* The statuses each fetch treats as a failure: every status but 200 in
\* get_github_users, the 4xx and 5xx statuses in get_following_users.
IsFailureStatus(r) ==
  /\ r.kind = "http"
  /\ IF entry = "main" THEN r.status # 200 ELSE r.status \in 400..599

\* C2 as stated: a non-200 status on any page ends the fetch with None and no
\* further request, in both list fetches.
C2_AsStated ==
  /\ (Returned /\ respLog # <<>> /\ IsNon200(Last(respLog))) => FetchResult.st = "none"
  /\ (Fetching /\ respLog # <<>>) => ~IsNon200(Last(respLog))

\* C2 amended: a failure status on any page (any status but 200 in
\* get_github_users, a 4xx or 5xx status in get_following_users) ends the
\* fetch: no further request is issued and None is returned, never the users
\* gathered so far.
C2_FailureIsNone ==
  /\ (Returned /\ respLog # <<>> /\ IsFailureStatus(Last(respLog))) =>
        /\ FetchResult.st = "none"
        /\ FetchRequests = Len(respLog)
  /\ (Fetching /\ respLog # <<>>) => ~IsFailureStatus(Last(respLog))

C2_Witness ==
  /\ pc = "got_following"
  /\ Len(respLog) = 2
  /\ Last(respLog).status = 403
  /\ users # {}
  /\ following.st = "none"

\* C3: the comparison computes non_followers = following - followers and
\* fans = followers - following, so non_followers and followers, fans and
\* following, and non_followers and fans are disjoint.
C3_SetDifferences ==
  (pc = "done" /\ entry = "main" /\ followers.st = "value" /\ following.st = "value") =>
     /\ non_followers.st = "value"
     /\ fans.st = "value"
     /\ non_followers.v = { u \in following.v : u \notin followers.v }
     /\ fans.v = { u \in followers.v : u \notin following.v }
     /\ non_followers.v \cap followers.v = {}
     /\ fans.v \cap following.v = {}
     /\ non_followers.v \cap fans.v = {}

C3_Witness ==
  /\ pc = "done"
  /\ followers.st = "value" /\ followers.v = {"alice", "bob"}
  /\ following.st = "value" /\ following.v = {"bob", "carol"}
  /\ non_followers.v = {"carol"}
  /\ fans.v = {"alice"}

\* C4: in the comparison path every login is lower-cased before it enters the
\* result set: a fetched set holds the lower-case forms of the logins sent
\* and nothing else, and an account sent by both endpoints in different letter
\* case is in neither non_followers nor fans.
C4_CaseNormalization ==
  /\ (pc \in {"got_followers", "got_following"} /\ FetchResult.st = "value") =>
        FetchResult.v = { Folded(l) : l \in Range(Records(respLog)) }
  /\ followers.st = "value" => followers.v = { Folded(l) : l \in followers_raw }
  /\ (pc = "done" /\ non_followers.st = "value") =>
        \A a \in followers_raw :
          \A b \in Range(Records(respLog)) :
            Folded(a) = Folded(b) =>
               /\ Folded(a) \notin non_followers.v
               /\ Folded(a) \notin fans.v
  /\ \A u \in users \cup followers.v \cup following.v : Folded(u) = u

C4_Witness ==
  /\ pc = "done"
  /\ non_followers.st = "value"
  /\ followers_raw = {"Alice", "bob"}
  /\ Range(Records(respLog)) = {"alice"}
  /\ non_followers.v = {}
  /\ fans.v = {"bob"}

\* A detail lookup that gives no record: a transport error, a status that is
\* not 200, or a response without public_repos.
IsSkipped(d) == d.kind = "exc" \/ d.status # 200 \/ ~d.has_repos

\* The records of the first n logins whose lookup was not skipped and whose
\* count is at most limit, in the order of the logins.
RECURSIVE Kept(_, _, _, _)
Kept(logins, details, n, limit) ==
  IF n = 0 THEN <<>>
  ELSE LET rest == Kept(logins, details, n - 1, limit)
           d == details[n]
       IN IF ~IsSkipped(d) /\ d.public_repos <= limit
          THEN Append(rest, [username |-> logins[n], repos |-> d.public_repos])
          ELSE rest

DetailRequests == RequestsTo("user")

AppendsIffAtMost(limit) ==
  (pc = "enrich" /\ Len(detailLog') = Len(detailLog) + 1) =>
     LET d == detailLog'[Len(detailLog')]
         user == following_users.v[Len(detailLog')]
     IN (d.kind = "http" /\ d.status = 200 /\ d.has_repos) =>
          low_repo_users' =
            IF d.public_repos <= limit
            THEN Append(low_repo_users, [username |-> user, repos |-> d.public_repos])
            ELSE low_repo_users

BobCarolScenario ==
  /\ pc = "done"
  /\ following_users = Some(<< "bob", "carol" >>)
  /\ Len(detailLog) = 2
  /\ ~IsSkipped(detailLog[1]) /\ detailLog[1].public_repos = 1
  /\ ~IsSkipped(detailLog[2]) /\ detailLog[2].public_repos = 5

\* C6 as stated: a successful lookup appends a record exactly if
\* public_repos <= threshold, the threshold that was configured.
C6_AsStated == [][AppendsIffAtMost(threshold)]_vars

\* C6 amended: a successful lookup with a public_repos field appends the
\* record {username, repos} exactly if public_repos <= 2, the fixed limit of
\* find_users_with_low_repos, whatever threshold was wanted; following list
\* [bob, carol] with counts 1 and 5 gives exactly [{bob, 1}].
C6_FixedLimit ==
  /\ [][AppendsIffAtMost(2)]_vars
  /\ [](BobCarolScenario => low_repo_users = << [username |-> "bob", repos |-> 1] >>)

C6_Witness ==
  /\ BobCarolScenario
  /\ threshold = 1
  /\ low_repo_users = << [username |-> "bob", repos |-> 1] >>

\* C7: after a non-empty 200 page the list fetch requests another page
\* exactly if the response has a link header with rel="next"; without one the
\* fetch ends after this page, whose records are in the result, and no
\* further request is issued.
C7_NextLinkDecides ==
  /\ (Fetching /\ respLog # <<>>) => HasNextRel(Last(respLog))
  /\ (respLog # <<>> /\ IsNextPage(Last(respLog))) => Fetching
  /\ (Returned /\ respLog # <<>> /\ IsLastFullPage(Last(respLog))) =>
        LET body == Last(respLog).body IN
        /\ FetchResult.st = "value"
        /\ FetchRequests = Len(respLog)
        /\ IF entry = "main"
           THEN \A l \in Range(body) : Folded(l) \in FetchResult.v
           ELSE /\ Len(FetchResult.v) >= Len(body)
                /\ SubSeq(FetchResult.v, Len(FetchResult.v) - Len(body) + 1,
                          Len(FetchResult.v)) = body

C7_Witness ==
  /\ pc = "got_following_users"
  /\ Len(respLog) = 2
  /\ IsNextPage(respLog[1])
  /\ IsLastFullPage(respLog[2])
  /\ respLog[2].link.present
  /\ following_users = Some(<< "Alice", "bob", "carol" >>)

\* C8: compare_github_relationships called with an output file and format
\* "txt" writes the result to that file, with every member of non_followers
\* and of fans in it.
C8_WritesOutputFile ==
  (entry = "main" /\ output_file # "" /\ pc \in {"done", "crashed"}) =>
     /\ pc = "done"
     /\ file.written
     /\ non_followers.st = "value"
     /\ fans.st = "value"
     /\ \A u \in non_followers.v \cup fans.v : u \in Range(file.rows)

\* C9: a transport exception during a list fetch makes the fetch return None
\* in both entry points, and the same exception during a detail lookup only
\* skips that login.
C9_TransportFailureIsNone ==
  /\ (respLog # <<>> /\ Last(respLog).kind = "exc") =>
        /\ pc # "crashed"
        /\ IF entry = "main"
           THEN followers.st = "none" \/ following.st = "none"
           ELSE following_users.st = "none"
  /\ \A k \in 1..Len(detailLog) :
        detailLog[k].kind = "exc" => pc \in {"enrich", "done"}

NoRequestTo(e) == RequestsTo(e) = 0

\* C10: after a list fetch returned None the caller stops at once: no
\* following fetch and no comparison after a failed followers fetch, no
\* comparison after a failed following fetch, no detail request after a failed
\* get_following_users, and no output file in any of these runs.
C10_StopAfterFailure ==
  /\ followers.st = "none" =>
        /\ pc \in {"got_followers", "done"}
        /\ NoRequestTo("following")
        /\ following.st = "unset"
  /\ (followers.st = "none" \/ following.st = "none") =>
        /\ non_followers.st = "unset"
        /\ fans.st = "unset"
        /\ ~file.written
        /\ pc \in {"got_followers", "got_following", "done"}
  /\ following_users.st = "none" =>
        /\ pc \in {"got_following_users", "done"}
        /\ NoRequestTo("user")
        /\ detailLog = <<>>
        /\ low_repo_users = <<>>
        /\ ~file.written

C10_Witness ==
  /\ pc = "done"
  /\ entry = "repo"
  /\ following_users.st = "none"
  /\ output_file = "out"
  /\ Len(respLog) = 2
  /\ ~file.written

\* The events of the run after the GETs of the list fetch.
EnrichmentEvents ==
  SubSeq(trace, RequestsTo("following") + 1, Len(trace))

\* C11: after a list fetch of N logins succeeded, enrichment issues exactly N
\* detail requests, one per login of the list (duplicates included) in list
\* order, one after another, each preceded by one delay of 0.5, whatever the
\* earlier lookups gave.
C11_OneLookupPerLogin ==
  /\ (entry = "repo" /\ following_users.st = "value" /\ pc \in {"enrich", "done"}) =>
        LET ev == EnrichmentEvents IN
        /\ Len(ev) = 2 * i
        /\ i <= Len(following_users.v)
        /\ pc = "done" => DetailRequests = Len(following_users.v)
        /\ \A k \in 1..i :
             /\ ev[2 * k - 1].kind = "sleep"
             /\ ev[2 * k - 1].tenths = 5
             /\ ev[2 * k].kind = "get"
             /\ ev[2 * k].endpoint = "user"
             /\ ev[2 * k].login = following_users.v[k]
  /\ (following_users.st # "value" \/ pc \notin {"enrich", "done"}) =>
        \A k \in 1..Len(trace) : trace[k].kind = "get" /\ trace[k].endpoint # "user"

C11_Witness ==
  /\ pc = "done"
  /\ following_users = Some(<< "bob", "bob", "Alice" >>)
  /\ DetailRequests = 3
  /\ detailLog[1].kind = "exc"
  /\ detailLog[2].status = 500
  /\ Len(low_repo_users) = 1

\* The list GETs of the run sent to endpoint e, in order.
ListGets(e) == SelectSeq(trace, LAMBDA ev : ev.kind = "get" /\ ev.endpoint = e)

\* C13: a list fetch starts at page 1 with page size 100 and its n-th request
\* carries page = n and per_page = 100: the page index rises by exactly 1 per
\* followed next link, is never repeated or skipped, and every page of one
\* fetch goes to the same endpoint.
C13_PageCursor ==
  /\ \A e \in {"followers", "following"} :
        \A n \in 1..Len(ListGets(e)) :
           /\ ListGets(e)[n].page = n
           /\ ListGets(e)[n].per_page = 100
  /\ Fetching => /\ page = Len(respLog) + 1
                 /\ FetchRequests = Len(respLog)
  /\ entry = "repo" => Len(ListGets("followers")) = 0
  /\ \A j, k \in 1..Len(trace) :
        (j < k /\ trace[j].kind = "get" /\ trace[k].kind = "get"
           /\ trace[k].endpoint = "followers") => trace[j].endpoint = "followers"

C13_Witness ==
  /\ pc = "got_following"
  /\ Len(ListGets("followers")) = 2
  /\ Len(ListGets("following")) = 3
  /\ ListGets("following")[3].page = 3

\* The list fetch that just returned failed, with isFailure telling which
\* responses are failures: a failure response, or in get_following_users a
\* transport error or an empty token.
FetchFailed(isFailure(_)) ==
  \/ entry = "repo" /\ token = ""
  \/ /\ respLog # <<>>
     /\ \/ isFailure(Last(respLog))
        \/ entry = "repo" /\ Last(respLog).kind = "exc"

IsEmptyFirstPage ==
  /\ Len(respLog) = 1
  /\ respLog[1].kind = "http"
  /\ respLog[1].status = 200
  /\ respLog[1].body = <<>>

\* An empty collection does not stop the caller: the following fetch and the
\* comparison in main.py, the report and the export in repozitories.py.
CallerProceeds ==
  /\ (pc = "done" /\ followers.st = "value") => following.st # "unset"
  /\ (pc = "done" /\ followers.st = "value" /\ following.st = "value") =>
        non_followers.st = "value" /\ fans.st = "value"
  /\ (pc = "done" /\ following_users.st = "value") =>
        /\ "results" \in Range(printed)
        /\ file.written <=> output_file # ""

\* C14 as stated: a list fetch returns None exactly if it failed, a failure
\* being a non-200 response or, in get_following_users, a transport error or
\* an empty token.
C14_AsStated ==
  Returned => (FetchResult.st = "none" <=> FetchFailed(IsNon200))

\* C14 amended: a list fetch returns None exactly if it failed: a response
\* with a status other than 200 in get_github_users; a 4xx or 5xx response, a
\* transport error or an empty token in get_following_users.  A 200 first page
\* with an empty list is a success that returns the empty collection after
\* exactly one request, and the caller goes on with it.
C14_NoneIffFailed ==
  /\ Returned => (FetchResult.st = "none" <=> FetchFailed(IsFailureStatus))
  /\ Returned => FetchResult.st \in {"none", "value"}
  /\ (Returned /\ IsEmptyFirstPage) =>
        /\ FetchResult.st = "value"
        /\ FetchResult.v = (IF entry = "main" THEN {} ELSE <<>>)
        /\ FetchRequests = 1
  /\ CallerProceeds

C14_Witness ==
  /\ pc = "done"
  /\ entry = "repo"
  /\ following_users.st = "value"
  /\ following_users.v = <<>>
  /\ RequestsTo("following") = 1
  /\ DetailRequests = 0
  /\ file.written
  /\ file.rows = <<>>

Ended == pc \in {"done", "crashed"}

\* The list fetch has just been served a non-empty page with a next link.
ContinuingPageServed ==
  /\ Fetching
  /\ respLog # <<>>
  /\ Last(respLog).kind = "http"
  /\ Last(respLog).body # <<>>
  /\ HasNextRel(Last(respLog))

\* C12 as stated: for every sequence of server responses the pagination loop
\* stops and the run reaches its end.
C12_AsStated == <>Ended

\* C12 amended: the pagination loop stops, and the run reaches its end, for
\* every sequence of server responses in which the non-empty pages with a next
\* link come to an end (an empty page, a page without next link or a failure
\* follows); while the server goes on serving such pages the loop goes on.
C12_EndsWhenPagesEnd == (<>[]~ContinuingPageServed) => <>Ended

C12_Witness ==
  /\ pc = "done"
  /\ entry = "main"
  /\ page = PageCap
  /\ non_followers.st = "value"
  /\ Cardinality(following.v) = 3

====
